---- MODULE Spec2Model ----
(***************************************************************************)
(* EnhancedBubblePhysics (frontend/src/physics/EnhancedBubblePhysics.js):  *)
(* the spawn-stability gate, the fade life cycle of the bubbles, the       *)
(* bodies and spring constraints they own in the Matter world, the         *)
(* collision filter and the velocity clamp.                                *)
(*                                                                         *)
(* A garment is a record [garment_id, person_id, similar_items]; a batch   *)
(* is the array handed to updateGarments.  Speeds are whole numbers of an  *)
(* abstract unit; the configured durations, cap and maxVelocity are the    *)
(* constructor's config argument, drawn from small ranges.                 *)
(*                                                                         *)
(* Besides updateGarments and the steps of the Matter runner the module    *)
(* holds updateConfig, destroy, and the effect of EnhancedBubbleCanvas     *)
(* (frontend/src/components/EnhancedBubbleCanvas.jsx) that hands the       *)
(* batches over under a throttle; each has a specification of its own.     *)
(***************************************************************************)
EXTENDS Integers, Sequences, FiniteSets, TLC

\* ----------------------------------------------------------------- bounds
SpawnFrames == 2      \* config.spawnDuration (20 by default)
FadeFrames == 2       \* config.fadeDuration (15 by default)
VelocityCap == 1      \* config.maxVelocity (15 by default), in speed units
MaxSpeed == 2         \* body speeds range over 0..MaxSpeed

GarmentIds == {1, 2}
PersonIds == {0, 1}
SimilarLengths == {0, 2}
Caps == {0, 1}
Ages == {0, 1}        \* bubble.age saturates at the largest
MaxBatchLen == Cardinality(GarmentIds)
Durations == 1..(FadeFrames + 1)    \* the durations updateConfig is called with
Restitutions == {50, 80}            \* percent
Frictions == {1, 5}                 \* hundredths
Gravities == {0, 1}                 \* speed units a runner step adds
MainSizes == {40, 80}               \* config.mainBubbleSize
SatelliteSizes == {15, 30}          \* config.satelliteBubbleSize

\* ------------------------------------------------------ program constants
spawnThreshold == 3
DefaultBubbleCount == 5
CategoryMain == 1
CategorySatellite == 2
MaskAll == 65535
WallCount == 4
DefaultRestitution == 80    \* 0.8, in percent
DefaultFriction == 1        \* 0.01, in hundredths
DefaultGravity == 1         \* 0.3, as one speed unit per runner step
DefaultMainSize == 80
DefaultSatelliteSize == 30
ThrottleMs == 33            \* the canvas hands over a batch when more time has passed
FrameMs == 17               \* the step of the clock, one frame at 60 FPS

VARIABLES
    wearer,             \* environment: the person each garment is detected on
    config,             \* this.config
    bubbles,            \* this.bubbles: garment_id -> bubble
    pendingGarments,    \* this.pendingGarments: garment_id -> [count, data]
    worldBodies,        \* handles of the bodies in this.world
    worldConstraints,   \* the constraints in this.world
    lastOp,             \* history: the operation that ran last
    lastIds,            \* history: the ids of the last batch
    before,             \* history: each id's standing when the last call began
    streak,             \* history: see NextStreak
    absentRun,          \* history: see NextAbsentRun
    liveRun,            \* history: see NextLiveRun
    spawned,            \* history: createBubble calls per id in the last call
    removed,            \* history: what removeBubble released in the last call
    promotedBy,         \* history: the garment createBubble was called with
    gravityY,           \* this.engine.gravity.y
    runnerRunning,      \* whether this.runner steps the engine
    sinceProcess,       \* canvas: Date.now() - lastProcessTimeRef.current
    camera,             \* the CameraStream object, its sockets and its camera
    basic               \* the basic BubblePhysics engine: bubbles, world, config

vars == <<wearer, config, bubbles, pendingGarments, worldBodies, worldConstraints,
          lastOp, lastIds, before, streak, absentRun, liveRun, spawned, removed,
          promotedBy, gravityY, runnerRunning, sinceProcess, camera, basic>>

\* --------------------------------------------------------------- helpers
Min(a, b) == IF a <= b THEN a ELSE b

Put(f, k, v) == [x \in DOMAIN f \cup {k} |-> IF x = k THEN v ELSE f[x]]

Drop(f, k) == [x \in DOMAIN f \ {k} |-> f[x]]

\* JS `x || d` on numbers: 0 is falsy
JsOr(x, d) == IF x = 0 THEN d ELSE x

RECURSIVE BitAnd(_, _)
BitAnd(a, b) ==
    IF a = 0 \/ b = 0 THEN 0
    ELSE (IF a % 2 = 1 /\ b % 2 = 1 THEN 1 ELSE 0) + 2 * BitAnd(a \div 2, b \div 2)

\* ---------------------------------------------------------------- inputs
ItemList(n) == [i \in 1..n |-> i]

SimilarLists == {ItemList(n) : n \in SimilarLengths}

\* a detection as the backend reports it, before the person is filled in
Detections == [garment_id : GarmentIds, similar_items : SimilarLists]

DetectionBatches == UNION {[1..n -> Detections] : n \in 0..MaxBatchLen}

\* garment 1 is detected on person 0, garment 2 on either person
Wearers == {w \in [GarmentIds -> PersonIds] : w[1] = 0}

Garment(d, w) ==
    [garment_id |-> d.garment_id, person_id |-> w[d.garment_id],
     similar_items |-> d.similar_items]

\* the key an observation without garment_id is filed under (undefined)
NoId == 0 - 1

\* the keys this.bubbles and this.pendingGarments can hold
Keys == GarmentIds \cup {NoId}

\* an observation without garment_id
MalformedGarment == [garment_id |-> NoId, person_id |-> 0, similar_items |-> <<>>]

\* observations as a direct caller may pass them: well-formed ones without
\* similar items, and the malformed one
RawObservations(w) ==
    {Garment(d, w) : d \in {x \in Detections : x.similar_items = <<>>}} \cup {MalformedGarment}

RawBatches(w) == UNION {[1..n -> RawObservations(w)] : n \in 0..MaxBatchLen}

BatchIds(garments) == {garments[i].garment_id : i \in DOMAIN garments}

Occurrences(garments, id) == Cardinality({i \in DOMAIN garments : garments[i].garment_id = id})

\* ------------------------------------------------------------- the world
WallHandle(i) == [owner |-> 0, kind |-> "wall", idx |-> i]

Boundaries == {WallHandle(i) : i \in 1..WallCount}

MainHandle(id) == [owner |-> id, kind |-> "main", idx |-> 0]

SatHandle(id, i) == [owner |-> id, kind |-> "satellite", idx |-> i]

\* ------------------------------------------------------------ createBubble
\* fault: the + 1 forgotten, so person 0 gets group 0
groupKeyNoOffset(person_id) == -person_id

\* fault: one group for everybody
groupKeyShared(person_id) == -1

\* collisionFilter.group of a bubble body
groupCollisionKey(person_id) == -(person_id + 1)

satelliteCount(garment, cfg) ==
    Min(JsOr(Len(garment.similar_items), 0), JsOr(cfg.bubbleCount, DefaultBubbleCount))

MainBody(garment, cfg) ==
    [handle |-> MainHandle(garment.garment_id),
     radius |-> cfg.mainBubbleSize,
     restitution |-> cfg.restitution,
     friction |-> cfg.friction,
     collisionFilter |-> [group |-> groupCollisionKey(garment.person_id),
                          category |-> CategoryMain, mask |-> MaskAll],
     speed |-> 0,
     plugin |-> [garmentData |-> garment, bubbleType |-> "main"]]

SatelliteBody(garment, i, cfg) ==
    [handle |-> SatHandle(garment.garment_id, i),
     radius |-> cfg.satelliteBubbleSize,
     restitution |-> cfg.restitution,
     friction |-> cfg.friction,
     collisionFilter |-> [group |-> groupCollisionKey(garment.person_id),
                          category |-> CategorySatellite, mask |-> MaskAll],
     speed |-> 0,
     plugin |-> [similarItem |-> garment.similar_items[i],
                 parentId |-> garment.garment_id, bubbleType |-> "satellite"]]

\* fault: every spring is tied to the first satellite
SpringConstraintToFirst(garment, i) ==
    [bodyA |-> MainHandle(garment.garment_id), bodyB |-> SatHandle(garment.garment_id, 1)]

SpringConstraint(garment, i) ==
    [bodyA |-> MainHandle(garment.garment_id), bodyB |-> SatHandle(garment.garment_id, i)]

\* st is the engine's state while a call runs: bubbles, pending, wb, wc and
\* the history fields spawned, removed, promotedBy
createBubble(st, garment, cfg) ==
    LET id == garment.garment_id
        n == satelliteCount(garment, cfg)
        satellites == [i \in 1..n |-> [body |-> SatelliteBody(garment, i, cfg),
                                       constraint |-> SpringConstraint(garment, i)]]
        mainBubble == MainBody(garment, cfg)
    IN  [st EXCEPT
            !.wc = @ \cup {satellites[i].constraint : i \in 1..n},
            !.wb = @ \cup {mainBubble.handle} \cup {satellites[i].body.handle : i \in 1..n},
            !.bubbles = Put(@, id, [main |-> mainBubble, satellites |-> satellites,
                                    fadeState |-> "spawning", fadeProgress |-> 0, age |-> 0]),
            !.spawned[id] = @ + 1,
            !.promotedBy = Put(@, id, garment)]

\* ------------------------------------------------------------ updateBubble
\* fault: the refresh starts the fade-in over
updateBubbleRespawn(st, garment) ==
    LET id == garment.garment_id
    IN  IF id \notin DOMAIN st.bubbles THEN st
        ELSE [st EXCEPT
                !.bubbles[id].main.plugin.garmentData = garment,
                !.bubbles[id].fadeState = "spawning",
                !.bubbles[id].fadeProgress = 0]

updateBubble(st, garment) ==
    LET id == garment.garment_id
        items == garment.similar_items
    IN  IF id \notin DOMAIN st.bubbles THEN st
        ELSE [st EXCEPT
                !.bubbles[id].main.plugin.garmentData = garment,
                !.bubbles[id].satellites =
                    [i \in DOMAIN @ |->
                        IF Len(items) > 0 /\ i <= Len(items)
                        THEN [@[i] EXCEPT !.body.plugin.similarItem = items[i]]
                        ELSE @[i]]]

\* ------------------------------------------------------------ removeBubble
\* fault: the satellite bodies are left in the world
removeBubbleMainOnly(st, garmentId) ==
    IF garmentId \notin DOMAIN st.bubbles THEN st
    ELSE LET bubble == st.bubbles[garmentId]
             sats == bubble.satellites
             wc2 == st.wc \ {sats[i].constraint : i \in DOMAIN sats}
             wb2 == st.wb \ {bubble.main.handle}
         IN  [st EXCEPT
                !.wc = wc2,
                !.wb = wb2,
                !.bubbles = Drop(@, garmentId),
                !.promotedBy = Drop(@, garmentId),
                !.removed[garmentId] =
                    [happened |-> TRUE, from |-> bubble.fadeState, satellites |-> Len(sats),
                     bodies |-> Cardinality(st.wb) - Cardinality(wb2),
                     constraints |-> Cardinality(st.wc) - Cardinality(wc2)]]

removeBubble(st, garmentId) ==
    IF garmentId \notin DOMAIN st.bubbles THEN st
    ELSE LET bubble == st.bubbles[garmentId]
             sats == bubble.satellites
             wc2 == st.wc \ {sats[i].constraint : i \in DOMAIN sats}
             wb2 == (st.wb \ {bubble.main.handle}) \ {sats[i].body.handle : i \in DOMAIN sats}
         IN  [st EXCEPT
                !.wc = wc2,
                !.wb = wb2,
                !.bubbles = Drop(@, garmentId),
                !.promotedBy = Drop(@, garmentId),
                !.removed[garmentId] =
                    [happened |-> TRUE, from |-> bubble.fadeState, satellites |-> Len(sats),
                     bodies |-> Cardinality(st.wb) - Cardinality(wb2),
                     constraints |-> Cardinality(st.wc) - Cardinality(wc2)]]

RECURSIVE RemoveAll(_, _)
RemoveAll(st, toRemove) ==
    IF toRemove = {} THEN st
    ELSE LET id == CHOOSE x \in toRemove : TRUE
         IN  RemoveAll(removeBubble(st, id), toRemove \ {id})

\* -------------------------------------------------------- updateFadeStates
\* fault: > for >=
reachedLate(progress, duration) == progress > duration

\* the test made after fadeProgress++
reached(progress, duration) == progress >= duration

\* fault: a spawning bubble is not advanced
FadeStepFadingOnly(bubble, cfg) ==
    IF bubble.fadeState = "fading_out"
    THEN [bubble EXCEPT !.fadeProgress = @ + 1]
    ELSE bubble

FadeStep(bubble, cfg) ==
    IF bubble.fadeState = "spawning"
    THEN LET progress == bubble.fadeProgress + 1
         IN  [bubble EXCEPT !.fadeProgress = progress,
                            !.fadeState = IF reached(progress, cfg.spawnDuration)
                                          THEN "visible" ELSE @]
    ELSE IF bubble.fadeState = "fading_out"
    THEN [bubble EXCEPT !.fadeProgress = @ + 1]
    ELSE bubble

\* fault: the fade advances but nothing is ever removed
updateFadeStatesNoRemoval(st, cfg) ==
    [st EXCEPT !.bubbles = [id \in DOMAIN @ |-> FadeStep(@[id], cfg)]]

updateFadeStates(st, cfg) ==
    LET stepped == [st EXCEPT !.bubbles = [id \in DOMAIN @ |-> FadeStep(@[id], cfg)]]
        toRemove == {id \in DOMAIN stepped.bubbles :
                        /\ stepped.bubbles[id].fadeState = "fading_out"
                        /\ reached(stepped.bubbles[id].fadeProgress, cfg.fadeDuration)}
    IN  RemoveAll(stepped, toRemove)

\* -------------------------------------------------------- clampVelocities
ClampBody(body, maxVel) == IF body.speed > maxVel THEN [body EXCEPT !.speed = maxVel] ELSE body

clampVelocities(st, cfg) ==
    [st EXCEPT !.bubbles =
        [id \in DOMAIN @ |->
            [@[id] EXCEPT
                !.main = ClampBody(@, cfg.maxVelocity),
                !.satellites = [i \in DOMAIN @ |->
                    [@[i] EXCEPT !.body = ClampBody(@, cfg.maxVelocity)]]]]]

\* ---------------------------------------------------------- updateGarments
\* fault: the pending record survives the promotion
PromoteKeepPending(st, garment, cfg) == createBubble(st, garment, cfg)

Promote(st, garment, cfg) ==
    [createBubble(st, garment, cfg) EXCEPT !.pending = Drop(@, garment.garment_id)]

\* fault: off by one in the threshold
stableEarly(count) == count >= spawnThreshold - 1

stable(count) == count >= spawnThreshold

ProcessGarment(st, garment, cfg) ==
    LET id == garment.garment_id
    IN  IF id \notin DOMAIN st.bubbles
        THEN IF id \notin DOMAIN st.pending
             THEN [st EXCEPT !.pending = Put(@, id, [count |-> 1])]
             ELSE LET counted == [st EXCEPT !.pending[id].count = @ + 1]
                  IN  IF stable(counted.pending[id].count)
                      THEN Promote(counted, garment, cfg)
                      ELSE counted
        ELSE LET updated == updateBubble(st, garment)
             IN  [updated EXCEPT !.bubbles[id].age = IF @ + 1 \in Ages THEN @ + 1 ELSE @]

RECURSIVE GarmentLoop(_, _, _, _)
GarmentLoop(st, garments, i, cfg) ==
    IF i > Len(garments) THEN st
    ELSE GarmentLoop(ProcessGarment(st, garments[i], cfg), garments, i + 1, cfg)

\* fault: the fade-out goes on from the fadeProgress the fade-in reached
MarkMissingKeepProgress(st, currentIds) ==
    [st EXCEPT !.bubbles =
        [id \in DOMAIN @ |->
            IF id \notin currentIds /\ @[id].fadeState = "visible"
            THEN [@[id] EXCEPT !.fadeState = "fading_out"]
            ELSE @[id]]]

\* fault: the batch is not looked at, every visible bubble is marked
MarkMissingAll(st, currentIds) ==
    [st EXCEPT !.bubbles =
        [id \in DOMAIN @ |->
            IF @[id].fadeState = "visible"
            THEN [@[id] EXCEPT !.fadeState = "fading_out", !.fadeProgress = 0]
            ELSE @[id]]]

\* fault: whatever is not fading out yet is marked, a spawning bubble too
MarkMissingAny(st, currentIds) ==
    [st EXCEPT !.bubbles =
        [id \in DOMAIN @ |->
            IF id \notin currentIds /\ @[id].fadeState # "fading_out"
            THEN [@[id] EXCEPT !.fadeState = "fading_out", !.fadeProgress = 0]
            ELSE @[id]]]

MarkMissing(st, currentIds) ==
    [st EXCEPT !.bubbles =
        [id \in DOMAIN @ |->
            IF id \notin currentIds /\ @[id].fadeState = "visible"
            THEN [@[id] EXCEPT !.fadeState = "fading_out", !.fadeProgress = 0]
            ELSE @[id]]]

\* fault: no clean-up of the pending map
CleanPendingNone(st, currentIds) == st

CleanPending(st, currentIds) ==
    [st EXCEPT !.pending = [id \in DOMAIN @ \cap currentIds |-> @[id]]]

NoRemoval ==
    [happened |-> FALSE, from |-> "none", satellites |-> 0, bodies |-> 0, constraints |-> 0]

updateGarmentsResult(garments, cfg) ==
    LET currentIds == BatchIds(garments)
        st0 == [bubbles |-> bubbles, pending |-> pendingGarments,
                wb |-> worldBodies, wc |-> worldConstraints,
                spawned |-> [id \in Keys |-> 0],
                removed |-> [id \in Keys |-> NoRemoval],
                promotedBy |-> promotedBy]
        st1 == GarmentLoop(st0, garments, 1, cfg)
        st2 == MarkMissing(st1, currentIds)
        st3 == updateFadeStates(st2, cfg)
        st4 == clampVelocities(st3, cfg)
    IN  CleanPending(st4, currentIds)

\* the engine's state as a call finds it
EngineState ==
    [bubbles |-> bubbles, pending |-> pendingGarments,
     wb |-> worldBodies, wc |-> worldConstraints,
     spawned |-> [id \in Keys |-> 0],
     removed |-> [id \in Keys |-> NoRemoval],
     promotedBy |-> promotedBy]

\* ------------------------------------------------------------ getFadeAlpha
\* fault: no branch for a bubble that fades out
getFadeAlphaNoFadeOut(bubble, cfg) ==
    IF bubble.fadeState = "spawning"
    THEN [num |-> bubble.fadeProgress, den |-> cfg.spawnDuration]
    ELSE [num |-> 1, den |-> 1]

\* the alpha as the fraction num/den
getFadeAlpha(bubble, cfg) ==
    IF bubble.fadeState = "spawning"
    THEN [num |-> bubble.fadeProgress, den |-> cfg.spawnDuration]
    ELSE IF bubble.fadeState = "fading_out"
    THEN [num |-> cfg.fadeDuration - bubble.fadeProgress, den |-> cfg.fadeDuration]
    ELSE [num |-> 1, den |-> 1]

\* ------------------------------------------------------- history variables
Dirty == 0 - 1

Standing(id) ==
    IF id \in DOMAIN bubbles THEN "live"
    ELSE IF id \in DOMAIN pendingGarments THEN "pending"
    ELSE "unseen"

\* consecutive batches, up to this one, that held the id exactly once while
\* the id was not live when the call began; Dirty once a batch of the run
\* held it twice
NextStreak(id, garments) ==
    IF id \notin BatchIds(garments) \/ id \in DOMAIN bubbles THEN 0
    ELSE IF Occurrences(garments, id) > 1 \/ streak[id] = Dirty THEN Dirty
    ELSE Min(streak[id] + 1, spawnThreshold + 1)

\* consecutive batches, up to this one, that did not hold the id, counted
\* from the batch that found its bubble visible
NextAbsentRun(id, garments) ==
    IF id \in BatchIds(garments) \/ id \notin DOMAIN bubbles THEN 0
    ELSE IF bubbles[id].fadeState = "visible" THEN 1
    ELSE IF bubbles[id].fadeState = "fading_out" /\ absentRun[id] > 0
    THEN Min(absentRun[id] + 1, FadeFrames + 1)
    ELSE 0

\* batches holding the id processed since the one that promoted it, with
\* no batch in between that did not hold it; -1 when there is no such run
NextLiveRun(id, garments, st) ==
    IF st.spawned[id] > 0 THEN 0
    ELSE IF id \in BatchIds(garments) /\ id \in DOMAIN st.bubbles /\ liveRun[id] >= 0
    THEN Min(liveRun[id] + 1, SpawnFrames + 1)
    ELSE -1

\* ------------------------------------------------------------ CameraStream
MaxConnects == 2      \* calls of connect() on one CameraStream
MaxFrames == 2        \* the count of sent frames saturates here

StreamIds == 1..MaxConnects

\* the object after the constructor; 0 stands for null. readyState holds
\* the state of each socket ever created, tracks the camera streams whose
\* tracks run, timers the pending setTimeout(sendFrame) calls, pc the place
\* the last call of connect() is at; disconnected and sentSince are
\* history: disconnect() was called and connect() not since, and the
\* frames sent since the last of those two calls
CameraStreamNew ==
    [ws |-> 0, stream |-> 0, videoElement |-> FALSE, isStreaming |-> FALSE,
     readyState |-> [s \in StreamIds |-> "NONE"], tracks |-> {}, timers |-> 0,
     pc |-> "idle", connects |-> 0, disconnected |-> FALSE, sentSince |-> 0]

\* sendFrame: returns at once unless streaming on an open socket; drawImage
\* throws on a null video element; else one frame is sent and the next
\* call is scheduled
sendFrame(cam) ==
    IF ~cam.isStreaming \/ cam.ws = 0 THEN cam
    ELSE IF cam.readyState[cam.ws] # "OPEN" THEN cam
    ELSE IF ~cam.videoElement THEN cam
    ELSE [cam EXCEPT !.sentSince = Min(@ + 1, MaxFrames), !.timers = @ + 1]

\* WebSocket.close() on a socket in the given state
closing(state) == IF state \in {"CONNECTING", "OPEN"} THEN "CLOSING" ELSE state

\* ------------------------------------------------ the basic BubblePhysics
\* the basic engine after its constructor
BubblePhysicsNew(cfg) ==
    [bubbles |-> <<>>, worldBodies |-> Boundaries, worldConstraints |-> {},
     gravityY |-> JsOr(cfg.gravity, DefaultGravity),
     config |-> [cfg EXCEPT !.restitution = JsOr(@, DefaultRestitution),
                            !.friction = JsOr(@, DefaultFriction),
                            !.mainBubbleSize = JsOr(@, DefaultMainSize),
                            !.satelliteBubbleSize = JsOr(@, DefaultSatelliteSize)]]

BasicMainBody(garment, cfg) ==
    [handle |-> MainHandle(garment.garment_id),
     radius |-> cfg.mainBubbleSize,
     restitution |-> cfg.restitution,
     friction |-> cfg.friction,
     collisionFilter |-> [group |-> -garment.person_id,
                          category |-> CategoryMain, mask |-> MaskAll],
     plugin |-> [garmentData |-> garment]]

BasicSatelliteBody(garment, i, cfg) ==
    [handle |-> SatHandle(garment.garment_id, i),
     radius |-> cfg.satelliteBubbleSize,
     restitution |-> cfg.restitution,
     friction |-> cfg.friction,
     collisionFilter |-> [group |-> -garment.person_id,
                          category |-> CategorySatellite, mask |-> MaskAll],
     plugin |-> [similarItem |-> garment.similar_items[i],
                 parentId |-> garment.garment_id]]

\* b is the basic engine: bubbles, worldBodies, worldConstraints, gravityY, config
BasicCreateBubble(b, garment) ==
    LET id == garment.garment_id
        n == satelliteCount(garment, b.config)
        satellites == [i \in 1..n |-> [body |-> BasicSatelliteBody(garment, i, b.config),
                                       constraint |-> SpringConstraint(garment, i)]]
        mainBubble == BasicMainBody(garment, b.config)
    IN  [b EXCEPT
            !.worldConstraints = @ \cup {satellites[i].constraint : i \in 1..n},
            !.worldBodies = @ \cup {mainBubble.handle}
                              \cup {satellites[i].body.handle : i \in 1..n},
            !.bubbles = Put(@, id, [main |-> mainBubble, satellites |-> satellites])]

BasicUpdateBubble(b, garment) ==
    LET id == garment.garment_id
        items == garment.similar_items
        newSatelliteCount == Min(Len(items), JsOr(b.config.bubbleCount, DefaultBubbleCount))
    IN  IF id \notin DOMAIN b.bubbles THEN b
        ELSE [b EXCEPT
                !.bubbles[id].main.plugin.garmentData = garment,
                !.bubbles[id].satellites =
                    [i \in DOMAIN @ |->
                        IF Len(items) > 0 /\ i <= newSatelliteCount
                        THEN [@[i] EXCEPT !.body.plugin.similarItem = items[i]]
                        ELSE @[i]]]

BasicRemoveBubble(b, garmentId) ==
    IF garmentId \notin DOMAIN b.bubbles THEN b
    ELSE LET bubble == b.bubbles[garmentId]
             sats == bubble.satellites
         IN  [b EXCEPT
                !.worldConstraints = @ \ {sats[i].constraint : i \in DOMAIN sats},
                !.worldBodies = (@ \ {bubble.main.handle})
                                   \ {sats[i].body.handle : i \in DOMAIN sats},
                !.bubbles = Drop(@, garmentId)]

\* the first loop of the basic updateGarments: bubbles the batch lacks go
RECURSIVE BasicRemoveMissing(_, _)
BasicRemoveMissing(b, missing) ==
    IF missing = {} THEN b
    ELSE LET id == CHOOSE x \in missing : TRUE
         IN  BasicRemoveMissing(BasicRemoveBubble(b, id), missing \ {id})

\* its second loop, from observation i on: refresh or create
RECURSIVE BasicForEach(_, _, _)
BasicForEach(b, garments, i) ==
    IF i > Len(garments) THEN b
    ELSE BasicForEach(IF garments[i].garment_id \in DOMAIN b.bubbles
                      THEN BasicUpdateBubble(b, garments[i])
                      ELSE BasicCreateBubble(b, garments[i]),
                      garments, i + 1)

\* ------------------------------------------------------------------ actions
Configs ==
    [restitution : {DefaultRestitution}, friction : {DefaultFriction},
     gravity : {DefaultGravity},
     mainBubbleSize : {DefaultMainSize}, satelliteBubbleSize : {DefaultSatelliteSize},
     spawnDuration : {SpawnFrames}, fadeDuration : {FadeFrames},
     maxVelocity : {VelocityCap}, bubbleCount : Caps]

Init ==
    /\ wearer \in Wearers
    /\ config \in Configs
    /\ bubbles = <<>>
    /\ pendingGarments = <<>>
    /\ worldBodies = Boundaries
    /\ worldConstraints = {}
    /\ lastOp = "constructor"
    /\ lastIds = {}
    /\ before = [id \in GarmentIds |-> "unseen"]
    /\ streak = [id \in GarmentIds |-> 0]
    /\ absentRun = [id \in GarmentIds |-> 0]
    /\ liveRun = [id \in GarmentIds |-> -1]
    /\ spawned = [id \in Keys |-> 0]
    /\ removed = [id \in Keys |-> NoRemoval]
    /\ promotedBy = <<>>
    /\ gravityY = JsOr(config.gravity, DefaultGravity)
    /\ runnerRunning = TRUE
    /\ sinceProcess = 0
    /\ camera = CameraStreamNew
    /\ basic = BubblePhysicsNew(config)

\* what a call of updateGarments does to the engine
ApplyBatch(garments) ==
    LET st == updateGarmentsResult(garments, config)
    IN  /\ bubbles' = st.bubbles
        /\ pendingGarments' = st.pending
        /\ worldBodies' = st.wb
        /\ worldConstraints' = st.wc
        /\ lastOp' = "updateGarments"
        /\ lastIds' = BatchIds(garments)
        /\ before' = [id \in GarmentIds |-> Standing(id)]
        /\ streak' = [id \in GarmentIds |-> NextStreak(id, garments)]
        /\ absentRun' = [id \in GarmentIds |-> NextAbsentRun(id, garments)]
        /\ liveRun' = [id \in GarmentIds |-> NextLiveRun(id, garments, st)]
        /\ spawned' = st.spawned
        /\ removed' = st.removed
        /\ promotedBy' = st.promotedBy
        /\ UNCHANGED <<camera, basic, wearer, config, gravityY, runnerRunning>>

UpdateGarments(garments) ==
    /\ ApplyBatch(garments)
    /\ UNCHANGED sinceProcess

\* updateGarments(null): garments.map throws a TypeError before anything is
\* changed
UpdateGarmentsNull ==
    /\ lastOp' = "TypeError"
    /\ UNCHANGED <<camera, basic, wearer, config, bubbles, pendingGarments, worldBodies,
                   worldConstraints, lastIds, before, streak, absentRun, liveRun,
                   spawned, removed, promotedBy, gravityY, runnerRunning, sinceProcess>>

\* one fixed-timestep Engine.update of the runner: gravity speeds every
\* bubble body up by gravity.y units (capped at MaxSpeed); nothing else is
\* called
Accelerate(body) == [body EXCEPT !.speed = Min(@ + gravityY, MaxSpeed)]

RunnerTick ==
    /\ runnerRunning
    /\ bubbles' = [id \in DOMAIN bubbles |->
            [bubbles[id] EXCEPT
                !.main = Accelerate(@),
                !.satellites = [i \in DOMAIN @ |-> [@[i] EXCEPT !.body = Accelerate(@)]]]]
    /\ lastOp' = "tick"
    /\ UNCHANGED <<camera, basic, wearer, config, pendingGarments, worldBodies,
                   worldConstraints, lastIds,
                   before, streak, absentRun, liveRun, spawned, removed, promotedBy,
                   gravityY, runnerRunning, sinceProcess>>

Next == \E ds \in DetectionBatches : UpdateGarments([i \in DOMAIN ds |-> Garment(ds[i], wearer)])

\* the calls of updateGarments alone: the runner changes speeds only, which
\* no step of updateGarments reads before clamping them
Spec == Init /\ [][Next]_vars

NextRunner ==
    \/ \E ds \in DetectionBatches : UpdateGarments([i \in DOMAIN ds |-> Garment(ds[i], wearer)])
    \/ RunnerTick

\* updateGarments interleaved with the steps of the Matter runner
SpecRunner == Init /\ [][NextRunner]_vars

NextRaw ==
    \/ \E garments \in RawBatches(wearer) : UpdateGarments(garments)
    \/ UpdateGarmentsNull

\* updateGarments called directly, with whatever a caller may pass
SpecRaw == Init /\ [][NextRaw]_vars

\* ------------------------------------------------------------ updateConfig
\* newConfig is a record holding the keys the caller sets
Has(newConfig, key) == key \in DOMAIN newConfig

\* { ...this.config, ...newConfig }
Merge(cfg, newConfig) ==
    [k \in DOMAIN cfg \cup DOMAIN newConfig |->
        IF k \in DOMAIN newConfig THEN newConfig[k] ELSE cfg[k]]

\* fault: the friction is not carried over to the bodies
ApplyMaterialNoFriction(body, newConfig) ==
    [body EXCEPT
        !.restitution = IF Has(newConfig, "restitution") THEN newConfig.restitution ELSE @]

ApplyMaterial(body, newConfig) ==
    [body EXCEPT
        !.restitution = IF Has(newConfig, "restitution") THEN newConfig.restitution ELSE @,
        !.friction = IF Has(newConfig, "friction") THEN newConfig.friction ELSE @]

\* the calls that change a duration
DurationConfigs ==
    {[spawnDuration |-> d] : d \in Durations} \cup {[fadeDuration |-> d] : d \in Durations}

\* the calls that change what the bodies are made of
MaterialConfigs ==
    {[restitution |-> r] : r \in Restitutions} \cup {[friction |-> f] : f \in Frictions}

\* the calls that change the gravity
GravityConfigs == {[gravity |-> g] : g \in Gravities}

UpdateConfig(newConfig) ==
    /\ config' = Merge(config, newConfig)
    /\ gravityY' = IF Has(newConfig, "gravity") THEN newConfig.gravity ELSE gravityY
    /\ bubbles' = [id \in DOMAIN bubbles |->
            [bubbles[id] EXCEPT
                !.main = ApplyMaterial(@, newConfig),
                !.satellites = [i \in DOMAIN @ |->
                    [@[i] EXCEPT !.body = ApplyMaterial(@, newConfig)]]]]
    /\ lastOp' = "updateConfig"
    /\ UNCHANGED <<camera, basic, wearer, pendingGarments, worldBodies, worldConstraints, lastIds,
                   before, streak, absentRun, liveRun, spawned, removed, promotedBy,
                   runnerRunning, sinceProcess>>

\* batches of at most one detection
SingleBatches == UNION {[1..n -> Detections] : n \in 0..1}

NextConfig ==
    \/ \E ds \in SingleBatches : UpdateGarments([i \in DOMAIN ds |-> Garment(ds[i], wearer)])
    \/ \E newConfig \in DurationConfigs : UpdateConfig(newConfig)

\* updateGarments interleaved with the calls of updateConfig that change a
\* duration
SpecConfig == Init /\ [][NextConfig]_vars

\* the calls that change the sizes of the bubbles to come
SizeConfigs ==
    {[mainBubbleSize |-> r] : r \in MainSizes}
    \cup {[satelliteBubbleSize |-> r] : r \in SatelliteSizes}

NextMaterial ==
    \/ \E ds \in SingleBatches : UpdateGarments([i \in DOMAIN ds |-> Garment(ds[i], wearer)])
    \/ \E newConfig \in MaterialConfigs \cup SizeConfigs : UpdateConfig(newConfig)

\* every garment on person 0: the person plays no part in updateConfig
InitMaterial ==
    /\ Init
    /\ \A id \in GarmentIds : wearer[id] = 0

\* updateGarments interleaved with the calls of updateConfig that change
\* material or size
SpecMaterial == InitMaterial /\ [][NextMaterial]_vars

\* the call that makes the fade-in one batch longer
SlowSpawnConfigs == {[spawnDuration |-> SpawnFrames + 1]}

NextSlowSpawn ==
    \/ \E ds \in SingleBatches : UpdateGarments([i \in DOMAIN ds |-> Garment(ds[i], wearer)])
    \/ \E newConfig \in SlowSpawnConfigs : UpdateConfig(newConfig)

\* updateGarments with a fade-in long enough for a bubble to be missed
\* while it is still spawning
SpecSlowSpawn == Init /\ [][NextSlowSpawn]_vars

\* the calls that carry a negative duration
OutOfRangeConfigs == {[spawnDuration |-> 0 - 1], [fadeDuration |-> 0 - 1]}

NextOutOfRange ==
    \/ \E ds \in SingleBatches : UpdateGarments([i \in DOMAIN ds |-> Garment(ds[i], wearer)])
    \/ \E newConfig \in OutOfRangeConfigs : UpdateConfig(newConfig)

\* updateGarments interleaved with calls of updateConfig that carry a value
\* out of range
SpecOutOfRange == Init /\ [][NextOutOfRange]_vars

\* ------------------------------------------------- EnhancedBubbleCanvas
\* the effect that runs when the garments prop changes to an array: the
\* batch goes to updateGarments when more than ThrottleMs have passed since
\* the last one that did, and nowhere otherwise
GarmentsEffect(garments) ==
    IF sinceProcess > ThrottleMs
    THEN /\ ApplyBatch(garments)
         /\ sinceProcess' = 0
    ELSE /\ lastOp' = "throttled"
         /\ UNCHANGED <<camera, basic, wearer, config, bubbles, pendingGarments, worldBodies,
                        worldConstraints, lastIds, before, streak, absentRun, liveRun,
                        spawned, removed, promotedBy, gravityY, runnerRunning, sinceProcess>>

\* the same effect when the prop is null or undefined
GarmentsEffectNull ==
    /\ lastOp' = "skipped"
    /\ UNCHANGED <<camera, basic, wearer, config, bubbles, pendingGarments, worldBodies,
                   worldConstraints, lastIds, before, streak, absentRun, liveRun,
                   spawned, removed, promotedBy, gravityY, runnerRunning, sinceProcess>>

\* the clock moves on by one frame; beyond the throttle the exact time no
\* longer matters
TimePasses ==
    /\ sinceProcess <= ThrottleMs
    /\ sinceProcess' = sinceProcess + FrameMs
    /\ UNCHANGED <<camera, basic, wearer, config, bubbles, pendingGarments, worldBodies,
                   worldConstraints, lastOp, lastIds, before, streak, absentRun, liveRun,
                   spawned, removed, promotedBy, gravityY, runnerRunning>>

NextCanvas ==
    \/ \E ds \in SingleBatches : GarmentsEffect([i \in DOMAIN ds |-> Garment(ds[i], wearer)])
    \/ GarmentsEffectNull
    \/ TimePasses

\* the engine as the canvas drives it: batches arrive as the garments prop
\* at any time
SpecCanvas == Init /\ [][NextCanvas]_vars

\* ----------------------------------------------------------------- destroy
\* Runner.stop ends the stepping; Engine.clear empties the engine's collision
\* pairs, which are not part of this state, and leaves the world composite
\* alone; this.bubbles and this.pendingGarments are not touched.  The canvas
\* calls it once, when it unmounts
Destroy ==
    /\ runnerRunning
    /\ runnerRunning' = FALSE
    /\ lastOp' = "destroy"
    /\ UNCHANGED <<camera, basic, wearer, config, bubbles, pendingGarments, worldBodies,
                   worldConstraints, lastIds, before, streak, absentRun, liveRun,
                   spawned, removed, promotedBy, gravityY, sinceProcess>>

\* a call of updateGarments by the mounted canvas; none follows the unmount
UpdateWhileMounted(garments) ==
    /\ runnerRunning
    /\ UpdateGarments(garments)

\* a call of updateConfig by the mounted canvas
ConfigWhileMounted(newConfig) ==
    /\ runnerRunning
    /\ UpdateConfig(newConfig)

NextTeardown ==
    \/ \E ds \in SingleBatches : UpdateWhileMounted([i \in DOMAIN ds |-> Garment(ds[i], wearer)])
    \/ \E newConfig \in GravityConfigs : ConfigWhileMounted(newConfig)
    \/ RunnerTick
    \/ Destroy

\* the life of an engine up to the unmount of its canvas
SpecTeardown == Init /\ [][NextTeardown]_vars

\* ------------------------------------------------- a throw in createBubble
\* the satellites whose constraint is in the world when the throw comes
FailPoints == {0, 1, 2}

\* createBubble up to a throw: the loop of lines 142-179 has added the
\* constraints of its first k rounds to the world (line 177); the bodies
\* (line 181) and the entry of this.bubbles (line 183) are still to come.
\* A constraint is named by the handles of its bodies, so a later spawn of
\* the same id that succeeds adds constraints of the same names.
createBubbleThrows(st, garment, cfg, k) ==
    LET done == Min(k, satelliteCount(garment, cfg))
    IN  [st EXCEPT !.wc = @ \cup {SpringConstraint(garment, i) : i \in 1..done}]

\* the loop of updateGarments up to the first createBubble, which throws;
\* thrown tells whether the loop came to one
RECURSIVE ThrowingLoop(_, _, _, _, _)
ThrowingLoop(st, garments, i, cfg, k) ==
    IF i > Len(garments) THEN [st |-> st, thrown |-> FALSE]
    ELSE LET garment == garments[i]
             id == garment.garment_id
         IN  IF /\ id \notin DOMAIN st.bubbles
                /\ id \in DOMAIN st.pending
                /\ stable(st.pending[id].count + 1)
             THEN [st |-> createBubbleThrows([st EXCEPT !.pending[id].count = @ + 1],
                                             garment, cfg, k),
                   thrown |-> TRUE]
             ELSE ThrowingLoop(ProcessGarment(st, garment, cfg), garments, i + 1, cfg, k)

\* a call of updateGarments that ends in the throw of createBubble: nothing
\* catches it, so lines 75-106 do not run.  The history variables keep the
\* values of the last call that returned.  A second throw for the same
\* pending record is left out, which keeps pending.count bounded
UpdateGarmentsThrows(garments, k) ==
    LET run == ThrowingLoop(EngineState, garments, 1, config, k)
    IN  /\ run.thrown
        /\ \A id \in DOMAIN run.st.pending : run.st.pending[id].count <= spawnThreshold
        /\ bubbles' = run.st.bubbles
        /\ pendingGarments' = run.st.pending
        /\ worldBodies' = run.st.wb
        /\ worldConstraints' = run.st.wc
        /\ lastOp' = "createBubbleError"
        /\ UNCHANGED <<camera, basic, wearer, config, lastIds, before, streak, absentRun, liveRun,
                       spawned, removed, promotedBy, gravityY, runnerRunning, sinceProcess>>

NextThrow ==
    \/ \E ds \in SingleBatches : UpdateGarments([i \in DOMAIN ds |-> Garment(ds[i], wearer)])
    \/ \E ds \in SingleBatches, k \in FailPoints :
            UpdateGarmentsThrows([i \in DOMAIN ds |-> Garment(ds[i], wearer)], k)

\* updateGarments with calls in which createBubble throws part-way
SpecThrow == Init /\ [][NextThrow]_vars

\* ---------------------------------------------------- collision filtering
\* Matter.Detector.canCollide on two collision filters
canCollide(filterA, filterB) ==
    IF filterA.group = filterB.group /\ filterA.group # 0
    THEN filterA.group > 0
    ELSE /\ BitAnd(filterA.mask, filterB.category) # 0
         /\ BitAnd(filterB.mask, filterA.category) # 0

\* the bodies of the live bubbles, each with its entity
BubbleBodies ==
    UNION {{[entity |-> id, body |-> bubbles[id].main]}
           \cup {[entity |-> id, body |-> bubbles[id].satellites[i].body] :
                    i \in DOMAIN bubbles[id].satellites} : id \in DOMAIN bubbles}

\* the person of the observation that promoted the entity
GroupId(id) == promotedBy[id].person_id

\* the fadeState of an id in a map of bubbles, "none" when it has no bubble
Lifecycle(map, id) == IF id \in DOMAIN map THEN map[id].fadeState ELSE "none"

\* ------------------------------------------------- CameraStream: actions
\* the fields of the two engines, which CameraStream does not touch
engineVars == <<wearer, config, bubbles, pendingGarments, worldBodies, worldConstraints,
                lastOp, lastIds, before, streak, absentRun, liveRun, spawned, removed,
                promotedBy, gravityY, runnerRunning, sinceProcess, basic>>

\* connect() up to its first await; no call while another is under way
Connect ==
    /\ camera.pc \notin {"getUserMedia", "loadedmetadata"}
    /\ camera.connects < MaxConnects
    /\ camera' = [camera EXCEPT !.pc = "getUserMedia", !.connects = @ + 1,
                                !.disconnected = FALSE, !.sentSince = 0]
    /\ UNCHANGED engineVars

\* getUserMedia resolves: connect() goes on to the await of the metadata
MediaGranted ==
    /\ camera.pc = "getUserMedia"
    /\ camera' = [camera EXCEPT !.stream = camera.connects,
                                !.tracks = @ \cup {camera.connects},
                                !.videoElement = TRUE,
                                !.pc = "loadedmetadata"]
    /\ UNCHANGED engineVars

\* getUserMedia rejects: the catch block ends connect()
MediaDenied ==
    /\ camera.pc = "getUserMedia"
    /\ camera' = [camera EXCEPT !.pc = "failed"]
    /\ UNCHANGED engineVars

\* onloadedmetadata: with this.videoElement null the handler throws and the
\* promise never resolves; else connect() creates the socket, sets its
\* handlers and returns
MetadataLoaded ==
    /\ camera.pc = "loadedmetadata"
    /\ camera' = IF ~camera.videoElement
                 THEN [camera EXCEPT !.pc = "stuck"]
                 ELSE [camera EXCEPT !.ws = camera.connects,
                                     !.readyState[camera.connects] = "CONNECTING",
                                     !.pc = "connected"]
    /\ UNCHANGED engineVars

\* ws.onopen of socket s, startStreaming and its first sendFrame
SocketOpen(s) ==
    /\ camera.readyState[s] = "CONNECTING"
    /\ camera' = sendFrame([camera EXCEPT !.readyState[s] = "OPEN", !.isStreaming = TRUE])
    /\ UNCHANGED engineVars

\* ws.onclose of socket s: closed by either side, or never opened
SocketClose(s) ==
    /\ camera.readyState[s] \in {"CONNECTING", "OPEN", "CLOSING"}
    /\ camera' = [camera EXCEPT !.readyState[s] = "CLOSED", !.isStreaming = FALSE]
    /\ UNCHANGED engineVars

\* a pending setTimeout(sendFrame, 100) fires
TimerFires ==
    /\ camera.timers > 0
    /\ camera' = sendFrame([camera EXCEPT !.timers = @ - 1])
    /\ UNCHANGED engineVars

Disconnect ==
    /\ camera' = [camera EXCEPT
                    !.isStreaming = FALSE,
                    !.readyState = IF camera.ws = 0 THEN @
                                   ELSE [@ EXCEPT ![camera.ws] = closing(@)],
                    !.ws = 0,
                    !.tracks = @ \ {camera.stream},
                    !.stream = 0,
                    !.videoElement = FALSE,
                    !.disconnected = TRUE,
                    !.sentSince = 0]
    /\ UNCHANGED engineVars

NextCamera ==
    \/ Connect
    \/ MediaGranted
    \/ MediaDenied
    \/ MetadataLoaded
    \/ \E s \in StreamIds : SocketOpen(s)
    \/ \E s \in StreamIds : SocketClose(s)
    \/ TimerFires
    \/ Disconnect

\* one CameraStream with the events of its camera, sockets and timers
SpecCamera == Init /\ [][NextCamera]_vars

\* ------------------------------------- the basic BubblePhysics: actions
BasicUpdateGarments(garments) ==
    /\ basic' = BasicForEach(BasicRemoveMissing(basic, DOMAIN basic.bubbles \ BatchIds(garments)),
                             garments, 1)
    /\ UNCHANGED <<camera, wearer, config, bubbles, pendingGarments, worldBodies,
                   worldConstraints, lastOp, lastIds, before, streak, absentRun, liveRun,
                   spawned, removed, promotedBy, gravityY, runnerRunning, sinceProcess>>

\* the calls of the basic updateConfig
BasicConfigs == {[restitution |-> r] : r \in Restitutions} \cup GravityConfigs

BasicUpdateConfig(newConfig) ==
    /\ basic' = [basic EXCEPT
                    !.config = Merge(@, newConfig),
                    !.gravityY = IF Has(newConfig, "gravity") THEN newConfig.gravity ELSE @,
                    !.bubbles = [id \in DOMAIN @ |->
                        IF ~Has(newConfig, "restitution") THEN @[id]
                        ELSE [@[id] EXCEPT
                                !.main.restitution = newConfig.restitution,
                                !.satellites = [i \in DOMAIN @ |->
                                    [@[i] EXCEPT !.body.restitution = newConfig.restitution]]]]]
    /\ UNCHANGED <<camera, wearer, config, bubbles, pendingGarments, worldBodies,
                   worldConstraints, lastOp, lastIds, before, streak, absentRun, liveRun,
                   spawned, removed, promotedBy, gravityY, runnerRunning, sinceProcess>>

NextBasic ==
    \/ \E ds \in DetectionBatches :
            BasicUpdateGarments([i \in DOMAIN ds |-> Garment(ds[i], wearer)])
    \/ \E newConfig \in BasicConfigs : BasicUpdateConfig(newConfig)

\* the basic engine under batches and configuration changes
SpecBasic == Init /\ [][NextBasic]_vars

\* ------------------------------------------------------------------ claims

\* C1: an id that is not live and is held, once each, by spawnThreshold
\* consecutive batches is promoted by exactly one createBubble, made while
\* the batch that brings the run to spawnThreshold is processed: not while
\* the run is shorter, and the run never grows beyond the threshold.
StabilityGatePromotion ==
    \A id \in GarmentIds :
        /\ streak[id] <= spawnThreshold
        /\ streak[id] = spawnThreshold =>
              /\ spawned[id] = 1
              /\ id \in DOMAIN bubbles
        /\ streak[id] \in 0..(spawnThreshold - 1) => spawned[id] = 0
        /\ streak[id] \in 1..(spawnThreshold - 1) => id \notin DOMAIN bubbles

PromotedOnThirdBatch ==
    \E id \in GarmentIds :
        /\ streak[id] = spawnThreshold
        /\ before[id] = "pending"
        /\ id \in DOMAIN bubbles

\* C2: a call whose batch does not hold an id that was not live when the
\* call began leaves the id neither pending nor live; a first sighting
\* after that counts 1.
NoGracePeriod ==
    \A id \in GarmentIds :
        /\ (id \notin lastIds /\ before[id] # "live") =>
              /\ id \notin DOMAIN pendingGarments
              /\ id \notin DOMAIN bubbles
        /\ streak[id] = 1 =>
              /\ id \in DOMAIN pendingGarments
              /\ pendingGarments[id].count = 1

PendingDroppedOnMiss ==
    \E id \in GarmentIds :
        /\ lastOp = "updateGarments"
        /\ before[id] = "pending"
        /\ id \notin lastIds
        /\ id \notin DOMAIN pendingGarments

\* C3: a visible bubble whose id is missing from fadeDuration consecutive
\* batches is still there (fading out) after fewer of them and is removed
\* by the fadeDuration-th; the removal takes 1 + satellites bodies and all
\* its constraints out of the world.
FadeOutRemoval ==
    \A id \in GarmentIds :
        /\ absentRun[id] <= config.fadeDuration
        /\ absentRun[id] \in 1..(config.fadeDuration - 1) =>
              /\ id \in DOMAIN bubbles
              /\ bubbles[id].fadeState = "fading_out"
              /\ ~removed[id].happened
        /\ absentRun[id] = config.fadeDuration =>
              /\ id \notin DOMAIN bubbles
              /\ removed[id].happened
              /\ removed[id].bodies = 1 + removed[id].satellites
              /\ removed[id].constraints = removed[id].satellites
              /\ \A h \in worldBodies : h.owner # id
              /\ \A c \in worldConstraints : c.bodyA.owner # id /\ c.bodyB.owner # id

RemovedWithSatellites ==
    \E id \in GarmentIds :
        /\ absentRun[id] = config.fadeDuration
        /\ removed[id].happened
        /\ removed[id].satellites > 0

\* C4: after every step of the runner every body of every live bubble is
\* no faster than maxVelocity.
VelocityGovernor ==
    lastOp = "tick" =>
        \A b \in BubbleBodies : b.body.speed <= config.maxVelocity

CollisionGroupKey ==
    /\ \A b \in BubbleBodies :
          /\ b.body.collisionFilter.group = -(GroupId(b.entity) + 1)
          /\ b.body.collisionFilter.group < 0
    /\ \A a, b \in BubbleBodies :
          GroupId(a.entity) # GroupId(b.entity) =>
              a.body.collisionFilter.group # b.body.collisionFilter.group

TwoGroupsLive ==
    \E id1, id2 \in DOMAIN bubbles :
        /\ GroupId(id1) = 0
        /\ GroupId(id2) = 1

\* C7: no id is pending and live at once.
PendingLiveDisjoint == DOMAIN pendingGarments \cap DOMAIN bubbles = {}

PromotedBesidePending ==
    \E id1, id2 \in GarmentIds :
        /\ spawned[id1] > 0
        /\ id1 \in DOMAIN bubbles
        /\ id2 \in DOMAIN pendingGarments

\* C8: every live bubble has min(configured cap, candidates of the
\* observation that promoted it) satellites.
SatelliteCount ==
    \A id \in DOMAIN bubbles :
        Len(bubbles[id].satellites) =
            Min(config.bubbleCount, Len(promotedBy[id].similar_items))

\* C9: fadeProgress stays within 0..spawnDuration while spawning and within
\* 0..fadeDuration while fading out; a spawning bubble turns visible in the
\* call that brings fadeProgress to spawnDuration, and a bubble is removed
\* in the call that brings its fading-out progress to fadeDuration and in
\* no other.
FadeBoundsNow ==
    \A id \in DOMAIN bubbles :
        /\ bubbles[id].fadeState = "spawning" =>
              bubbles[id].fadeProgress \in 0..config.spawnDuration
        /\ bubbles[id].fadeState = "fading_out" =>
              bubbles[id].fadeProgress \in 0..config.fadeDuration

FadeTransitions ==
    \A id \in DOMAIN bubbles :
        /\ bubbles[id].fadeState = "spawning" =>
              /\ id \in DOMAIN bubbles'
              /\ bubbles'[id].fadeProgress = bubbles[id].fadeProgress + 1
              /\ bubbles'[id].fadeState =
                    IF bubbles'[id].fadeProgress = config.spawnDuration
                    THEN "visible" ELSE "spawning"
        /\ id \notin DOMAIN bubbles' <=>
              \/ /\ bubbles[id].fadeState = "fading_out"
                 /\ bubbles[id].fadeProgress + 1 = config.fadeDuration
              \/ /\ bubbles[id].fadeState = "visible"
                 /\ id \notin lastIds'
                 /\ config.fadeDuration = 1

FadeProgressBounds == []FadeBoundsNow /\ [][FadeTransitions]_vars

SpawnedAndRemoved ==
    \E id1, id2 \in GarmentIds :
        /\ id1 \in DOMAIN bubbles
        /\ bubbles[id1].fadeState = "visible"
        /\ bubbles[id1].fadeProgress = config.spawnDuration
        /\ removed[id2].happened

AlphaFormula ==
    /\ \A id \in DOMAIN bubbles :
          LET alpha == getFadeAlpha(bubbles[id], config)
              progress == bubbles[id].fadeProgress
          IN  /\ bubbles[id].fadeState = "spawning" =>
                    alpha.num * config.spawnDuration = progress * alpha.den
              /\ bubbles[id].fadeState = "fading_out" =>
                    alpha.num * config.fadeDuration =
                        (config.fadeDuration - progress) * alpha.den
              /\ bubbles[id].fadeState = "visible" => alpha.num = alpha.den
              /\ alpha.den > 0
    /\ \A id \in GarmentIds :
          absentRun[id] \in 1..(config.fadeDuration - 1) =>
              /\ id \in DOMAIN bubbles
              /\ LET alpha == getFadeAlpha(bubbles[id], config)
                 IN  alpha.num * config.fadeDuration =
                        (config.fadeDuration - absentRun[id]) * alpha.den

PartlyFaded ==
    \E id \in DOMAIN bubbles :
        /\ absentRun[id] \in 1..(config.fadeDuration - 1)
        /\ getFadeAlpha(bubbles[id], config).num > 0
        /\ getFadeAlpha(bubbles[id], config).num < getFadeAlpha(bubbles[id], config).den

\* C12: whatever calls of updateGarments and updateConfig came before, the
\* alpha of every live bubble is a number from 0 to 1.
AlphaRange ==
    \A id \in DOMAIN bubbles :
        LET alpha == getFadeAlpha(bubbles[id], config)
        IN  /\ alpha.den > 0
            /\ 0 <= alpha.num
            /\ alpha.num <= alpha.den

\* C13: in every call of updateGarments a spawning bubble stays spawning or
\* turns visible (exactly when fadeProgress reaches spawnDuration), a visible
\* one stays
\* visible or starts fading out (exactly when the batch lacks its id), one
\* that fades out keeps fading or is removed (exactly when fadeProgress
\* reaches fadeDuration); a bubble that is removed was fading out when
\* removeBubble took it; no other operation changes a bubble's state.
LifecycleStep ==
    \A id \in GarmentIds :
        LET was == Lifecycle(bubbles, id)
            is == Lifecycle(bubbles', id)
        IN  IF lastOp' # "updateGarments" THEN is = was
            ELSE /\ was = "spawning" =>
                       /\ is \in {"spawning", "visible"}
                       /\ is = "visible" <=> bubbles'[id].fadeProgress >= config.spawnDuration
                 /\ was = "visible" =>
                       /\ is \in {"visible", "fading_out"} \/ (is = "none" /\ config.fadeDuration = 1)
                       /\ is = "visible" <=> id \in lastIds'
                 /\ was = "fading_out" =>
                       /\ is \in {"fading_out", "none"}
                       /\ is = "none" <=> bubbles[id].fadeProgress + 1 >= config.fadeDuration
                 /\ (was # "none" /\ is = "none") =>
                       /\ removed'[id].happened
                       /\ removed'[id].from = "fading_out"
                 /\ (was = "none" /\ is # "none") =>
                       /\ spawned'[id] = 1
                       /\ is = (IF config.spawnDuration > 1 THEN "spawning" ELSE "visible")

LifecycleStateMachine == [][LifecycleStep]_vars

StartedFading ==
    \E id \in DOMAIN bubbles :
        /\ bubbles[id].fadeState = "fading_out"
        /\ bubbles[id].fadeProgress = 1
        /\ before[id] = "live"
        /\ id \notin lastIds

\* C14: a call of updateGarments whose batch holds the id of a bubble that
\* is fading out leaves that bubble live and visible.
ReappearanceStep ==
    \A id \in DOMAIN bubbles :
        (/\ bubbles[id].fadeState = "fading_out"
         /\ lastOp' = "updateGarments"
         /\ id \in lastIds') =>
            /\ id \in DOMAIN bubbles'
            /\ bubbles'[id].fadeState = "visible"

ReappearanceSnapsBack == [][ReappearanceStep]_vars

\* C15: processing an observation whose id is live writes the payload of
\* the main body and of the satellites, and the age, and nothing else: the
\* fadeState and fadeProgress, the handle, speed, material and collision
\* filter of every body, the satellites and their constraints, the other
\* bubbles, the world and the pending map are as before; the call that
\* does so creates no bubble and leaves the id not pending.
RefreshIsPayloadOnly ==
    /\ \A d \in Detections :
          LET garment == Garment(d, wearer)
              id == garment.garment_id
              after == ProcessGarment(EngineState, garment, config)
              BodyFrame(body) ==
                  [handle |-> body.handle, speed |-> body.speed,
                   restitution |-> body.restitution, friction |-> body.friction,
                   collisionFilter |-> body.collisionFilter,
                   bubbleType |-> body.plugin.bubbleType]
              Frame(bubble) ==
                  [fadeState |-> bubble.fadeState, fadeProgress |-> bubble.fadeProgress,
                   main |-> BodyFrame(bubble.main),
                   satellites |-> [i \in DOMAIN bubble.satellites |->
                        [body |-> BodyFrame(bubble.satellites[i].body),
                         constraint |-> bubble.satellites[i].constraint]]]
          IN  id \in DOMAIN bubbles =>
                  /\ DOMAIN after.bubbles = DOMAIN bubbles
                  /\ Frame(after.bubbles[id]) = Frame(bubbles[id])
                  /\ after.bubbles[id].main.plugin.garmentData = garment
                  /\ \A other \in DOMAIN bubbles \ {id} : after.bubbles[other] = bubbles[other]
                  /\ after.pending = pendingGarments
                  /\ after.wb = worldBodies
                  /\ after.wc = worldConstraints
                  /\ after.spawned[id] = 0
                  /\ ~after.removed[id].happened
    /\ \A id \in GarmentIds :
          (before[id] = "live" /\ id \in lastIds) =>
              /\ spawned[id] = 0
              /\ id \notin DOMAIN pendingGarments

RefreshedPayload ==
    \E id \in DOMAIN bubbles :
        /\ before[id] = "live"
        /\ id \in lastIds
        /\ bubbles[id].age > 0
        /\ bubbles[id].main.plugin.garmentData # promotedBy[id]
        /\ Len(bubbles[id].satellites) > 0

\* C16: every step of the runner advances the fadeProgress of every bubble
\* that is spawning or fading out by one, or removes the bubble, whether or
\* not a batch arrives.
FadeTickStep ==
    lastOp' = "tick" =>
        \A id \in DOMAIN bubbles :
            bubbles[id].fadeState \in {"spawning", "fading_out"} =>
                \/ id \notin DOMAIN bubbles'
                \/ bubbles'[id].fadeProgress = bubbles[id].fadeProgress + 1

FadeIsTickDriven == [][FadeTickStep]_vars

\* C17: once the throttle window is over, the batch that arrived last is
\* not one that was dropped: of the batches of one window the last is the
\* one applied.
MostRecentBatchWins == sinceProcess > ThrottleMs => lastOp # "throttled"

\* C18: once destroy has returned the runner no longer steps the engine,
\* no bubble is left in this.bubbles, and the world holds no body and no
\* constraint of a bubble.
TeardownReleases ==
    lastOp = "destroy" =>
        /\ ~ENABLED RunnerTick
        /\ bubbles = <<>>
        /\ worldBodies \subseteq Boundaries
        /\ worldConstraints = {}

\* C19: no call of updateGarments ends in an error, be the batch empty or
\* null; after an empty batch no id is pending and no bubble that the call
\* found visible is still visible.
EmptyOrNullTolerated ==
    /\ lastOp # "TypeError"
    /\ (lastOp = "updateGarments" /\ lastIds = {}) =>
          /\ pendingGarments = <<>>
          /\ \A id \in GarmentIds :
                (id \in DOMAIN bubbles /\ bubbles[id].fadeState = "visible") =>
                    absentRun[id] = 0

\* C20: an observation without id is filed nowhere, neither pending nor
\* live, and no bubble is ever created for it; the well-formed observations
\* of the same batches pass the gate as usual.
MalformedSkipped ==
    /\ NoId \notin DOMAIN pendingGarments
    /\ NoId \notin DOMAIN bubbles
    /\ spawned[NoId] = 0
    /\ \A id \in GarmentIds : streak[id] = spawnThreshold => id \in DOMAIN bubbles

\* C21: whatever happened in createBubble, every constraint and every
\* bubble body in the world belongs to a bubble of this.bubbles.
AllOrNothingSpawn ==
    /\ \A c \in worldConstraints :
          c.bodyA.owner \in DOMAIN bubbles /\ c.bodyB.owner \in DOMAIN bubbles
    /\ \A h \in worldBodies \ Boundaries : h.owner \in DOMAIN bubbles

\* C22: no call of updateConfig puts a negative spawnDuration, fadeDuration
\* or maxVelocity into this.config: the call is refused and the value of
\* before stays.
ConfigValidated ==
    /\ config.spawnDuration >= 0
    /\ config.fadeDuration >= 0
    /\ config.maxVelocity >= 0

\* C23: the restitution and friction of every body of every live bubble
\* are the configured ones at all times; a call of updateConfig leaves the
\* radius of every body, the fadeState and fadeProgress of every bubble,
\* the pending map, the live set and the world as they are; a bubble
\* created afterwards has the configured radii, and a bubble keeps its
\* radii as long as it lives.
MaterialNow ==
    \A b \in BubbleBodies :
        /\ b.body.restitution = config.restitution
        /\ b.body.friction = config.friction

ConfigStep ==
    LET Radii(bubble) ==
            [main |-> bubble.main.radius,
             satellites |-> [i \in DOMAIN bubble.satellites |->
                                bubble.satellites[i].body.radius]]
    IN  /\ lastOp' = "updateConfig" =>
              /\ DOMAIN bubbles' = DOMAIN bubbles
              /\ pendingGarments' = pendingGarments
              /\ worldBodies' = worldBodies
              /\ worldConstraints' = worldConstraints
              /\ \A id \in DOMAIN bubbles :
                    /\ bubbles'[id].fadeState = bubbles[id].fadeState
                    /\ bubbles'[id].fadeProgress = bubbles[id].fadeProgress
                    /\ Radii(bubbles'[id]) = Radii(bubbles[id])
        /\ lastOp' = "updateGarments" =>
              \A id \in DOMAIN bubbles' :
                  IF spawned'[id] > 0
                  THEN /\ bubbles'[id].main.radius = config.mainBubbleSize
                       /\ \A i \in DOMAIN bubbles'[id].satellites :
                             bubbles'[id].satellites[i].body.radius = config.satelliteBubbleSize
                  ELSE /\ id \in DOMAIN bubbles
                       /\ Radii(bubbles'[id]) = Radii(bubbles[id])

LiveConfigSemantics == []MaterialNow /\ [][ConfigStep]_vars

ResizedAfterSpawn ==
    \E id \in DOMAIN bubbles :
        /\ lastOp = "updateConfig"
        /\ bubbles[id].main.radius # config.mainBubbleSize
        /\ \E i \in DOMAIN bubbles[id].satellites :
              /\ bubbles[id].satellites[i].body.radius # config.satelliteBubbleSize
              /\ bubbles[id].satellites[i].body.restitution # DefaultRestitution
              /\ bubbles[id].satellites[i].body.friction # DefaultFriction

\* C24: a call of updateGarments advances the sighting count of an id by at
\* most one, however often the batch holds the id, and promotes an id only
\* when spawnThreshold - 1 earlier batches had counted it.
DuplicateStep ==
    \A id \in GarmentIds :
        LET Count(pending) == IF id \in DOMAIN pending THEN pending[id].count ELSE 0
        IN  /\ Count(pendingGarments') <= Count(pendingGarments) + 1
            /\ spawned'[id] > 0 => Count(pendingGarments) = spawnThreshold - 1

DuplicatesCountOnce == [][DuplicateStep]_vars

\* C25: from the batch that promoted an id on, as long as every batch holds
\* the id, its bubble is live, spawning or visible, never fading out and
\* never removed; once visible it stays visible.
SteadyNow ==
    \A id \in GarmentIds :
        liveRun[id] >= 0 =>
            /\ id \in DOMAIN bubbles
            /\ bubbles[id].fadeState \in {"spawning", "visible"}
            /\ ~removed[id].happened

SteadyStep ==
    \A id \in GarmentIds :
        (/\ liveRun[id] >= 0
         /\ liveRun'[id] > 0
         /\ bubbles[id].fadeState = "visible") =>
            bubbles'[id].fadeState = "visible"

NoFlicker == []SteadyNow /\ [][SteadyStep]_vars

SteadilyVisible ==
    \E id \in GarmentIds :
        /\ liveRun[id] > config.spawnDuration
        /\ id \in DOMAIN bubbles
        /\ bubbles[id].fadeState = "visible"
        /\ bubbles[id].age > 0

\* C26: a live bubble is at most spawnDuration + fadeDuration + 1 batches
\* away from its removal, counting only batches that lack its id: every
\* such batch either removes it, with its 1 + satellites bodies and all its
\* constraints, or brings it one batch nearer, whatever state it is in.
BatchesToRemoval(bubble, cfg) ==
    IF bubble.fadeState = "spawning"
    THEN (cfg.spawnDuration - bubble.fadeProgress) + cfg.fadeDuration
    ELSE IF bubble.fadeState = "visible" THEN cfg.fadeDuration
    ELSE cfg.fadeDuration - bubble.fadeProgress

RemovalInReach ==
    \A id \in DOMAIN bubbles :
        /\ BatchesToRemoval(bubbles[id], config) >= 1
        /\ BatchesToRemoval(bubbles[id], config) <= config.spawnDuration + config.fadeDuration + 1

AbsentStep ==
    \A id \in DOMAIN bubbles :
        (lastOp' = "updateGarments" /\ id \notin lastIds') =>
            IF id \in DOMAIN bubbles'
            THEN BatchesToRemoval(bubbles'[id], config)
                    = BatchesToRemoval(bubbles[id], config) - 1
            ELSE /\ BatchesToRemoval(bubbles[id], config) = 1
                 /\ removed'[id].happened
                 /\ removed'[id].bodies = 1 + Len(bubbles[id].satellites)
                 /\ removed'[id].constraints = Len(bubbles[id].satellites)
                 /\ \A h \in worldBodies' : h.owner # id
                 /\ \A c \in worldConstraints' : c.bodyA.owner # id

EventualRemoval == []RemovalInReach /\ [][AbsentStep]_vars

\* a bubble that a batch lacking its id found spawning and left visible
GoneWhileSpawning ==
    \E id \in DOMAIN bubbles :
        /\ lastOp = "updateGarments"
        /\ bubbles[id].fadeState = "visible"
        /\ before[id] = "live"
        /\ id \notin lastIds
        /\ Len(bubbles[id].satellites) > 0

\* C27: a call of updateGarments advances the fadeProgress of a spawning
\* bubble by one and leaves it spawning, or visible once fadeProgress has
\* reached spawnDuration, whether or not the batch holds its id; a bubble
\* that starts to fade out was visible, its id is not in the batch, and
\* its fadeProgress, set back to 0, is 1 when the call returns; every
\* visible bubble that the batch lacks does so.
SpawningStep ==
    lastOp' = "updateGarments" =>
        \A id \in DOMAIN bubbles :
            /\ bubbles[id].fadeState = "spawning" =>
                  /\ id \in DOMAIN bubbles'
                  /\ bubbles'[id].fadeProgress = bubbles[id].fadeProgress + 1
                  /\ bubbles'[id].fadeState =
                        IF bubbles'[id].fadeProgress >= config.spawnDuration
                        THEN "visible" ELSE "spawning"
            /\ (/\ id \in DOMAIN bubbles'
                /\ bubbles'[id].fadeState = "fading_out"
                /\ bubbles[id].fadeState # "fading_out") =>
                  /\ bubbles[id].fadeState = "visible"
                  /\ id \notin lastIds'
                  /\ bubbles'[id].fadeProgress = 1
            /\ (/\ bubbles[id].fadeState = "visible"
                /\ id \notin lastIds'
                /\ config.fadeDuration > 1) =>
                  /\ id \in DOMAIN bubbles'
                  /\ bubbles'[id].fadeState = "fading_out"
                  /\ bubbles'[id].fadeProgress = 1

OnlyVisibleStartFading == [][SpawningStep]_vars

MissedWhileSpawning ==
    \E id \in DOMAIN bubbles :
        /\ lastOp = "updateGarments"
        /\ bubbles[id].fadeState = "spawning"
        /\ before[id] = "live"
        /\ id \notin lastIds

\* the bodies and the springs the bubbles of a map account for
RECURSIVE bodyCount(_, _)
bodyCount(map, ids) ==
    IF ids = {} THEN 0
    ELSE LET id == CHOOSE x \in ids : TRUE
         IN  1 + Len(map[id].satellites) + bodyCount(map, ids \ {id})

RECURSIVE constraintCount(_, _)
constraintCount(map, ids) ==
    IF ids = {} THEN 0
    ELSE LET id == CHOOSE x \in ids : TRUE
         IN  Len(map[id].satellites) + constraintCount(map, ids \ {id})

\* C28: after every call of updateGarments the world holds the 4 walls and,
\* for each bubble of this.bubbles, its main body and its satellites, and
\* nothing else (4 + the sum of 1 + satellites bodies); it holds one spring
\* per satellite of a live bubble, each from that bubble's main body to
\* that satellite; nothing of a removed bubble is left.
WorldAccounting ==
    lastOp = "updateGarments" =>
        /\ worldBodies =
              Boundaries
              \cup {bubbles[id].main.handle : id \in DOMAIN bubbles}
              \cup UNION {{bubbles[id].satellites[i].body.handle :
                             i \in DOMAIN bubbles[id].satellites} : id \in DOMAIN bubbles}
        /\ Cardinality(Boundaries) = WallCount
        /\ Cardinality(worldBodies) = WallCount + bodyCount(bubbles, DOMAIN bubbles)
        /\ worldConstraints =
              UNION {{bubbles[id].satellites[i].constraint :
                        i \in DOMAIN bubbles[id].satellites} : id \in DOMAIN bubbles}
        /\ Cardinality(worldConstraints) = constraintCount(bubbles, DOMAIN bubbles)
        /\ \A id \in DOMAIN bubbles : \A i \in DOMAIN bubbles[id].satellites :
              /\ bubbles[id].satellites[i].constraint.bodyA = bubbles[id].main.handle
              /\ bubbles[id].satellites[i].constraint.bodyB =
                    bubbles[id].satellites[i].body.handle
        /\ \A id \in Keys \ DOMAIN bubbles :
              /\ \A h \in worldBodies : h \in Boundaries \/ h.owner # id
              /\ \A c \in worldConstraints : c.bodyA.owner # id /\ c.bodyB.owner # id

LiveBesideRemoved ==
    /\ lastOp = "updateGarments"
    /\ \E id \in DOMAIN bubbles : Len(bubbles[id].satellites) > 1
    /\ \E id \in GarmentIds \ DOMAIN bubbles :
          removed[id].happened /\ removed[id].satellites > 1

\* C29: once disconnect() was called, and until connect() is called again,
\* isStreaming is false, no track of any camera stream runs and no frame
\* has been sent.
ShutdownIsFinal ==
    camera.disconnected =>
        /\ ~camera.isStreaming
        /\ camera.tracks = {}
        /\ camera.sentSince = 0

\* C30: in the basic engine two different bodies made for the same person
\* cannot collide.
BasicIsolation ==
    \A x, y \in UNION {{basic.bubbles[id].main}
                       \cup {basic.bubbles[id].satellites[i].body :
                                i \in DOMAIN basic.bubbles[id].satellites} :
                       id \in DOMAIN basic.bubbles} :
        (/\ x.handle # y.handle
         /\ x.handle.owner \in GarmentIds
         /\ wearer[x.handle.owner] = wearer[y.handle.owner])
            => ~canCollide(x.collisionFilter, y.collisionFilter)
====
